---- MODULE Spec2Model ----
(***************************************************************************)
(* target-singer-jsonl: the Singer target that buffers SCHEMA/RECORD lines *)
(* per stream, validates records, tracks the STATE checkpoint and flushes  *)
(* the buffers at end of input (src/target_singer_jsonl/__init__.py).      *)
(***************************************************************************)
EXTENDS Integers, Sequences, FiniteSets, TLC

\* Longest input (number of lines read from stdin) explored.
MaxLines == 4

----------------------------------------------------------------------------
(* JSON values.  A scalar is <<type, text>>; a JSON object is a function    *)
(* from key to value, so "k in obj" is k \in DOMAIN obj.                    *)

JInt(n) == <<"integer", ToString(n)>>
JStr(s) == <<"string", s>>
\* Python None, which json.dumps writes as null and json.loads reads back.
Null == <<"null", "null">>
TypeOf(v) == v[1]

EmptyDict == [k \in {} |-> k]
Put(d, k, v) == [x \in (DOMAIN d) \cup {k} |-> IF x = k THEN v ELSE d[x]]
\* dict.get(k, default)
Get(d, k, default) == IF k \in DOMAIN d THEN d[k] ELSE default
\* dict.update(other)
Update(d, other) ==
    [x \in (DOMAIN d) \cup (DOMAIN other) |->
        IF x \in DOMAIN other THEN other[x] ELSE d[x]]

\* json.dumps(obj): the text of one line; json_loads reads it back, and
\* fails on a line that is not JSON.
json_dumps(obj) == [json |-> obj]
IsJson(line) == "json" \in DOMAIN line
json_loads(line) == line.json

\* An insertion-ordered dict (iterated by .items()): a sequence of entries.
OKeys(od) == {od[i].stream : i \in DOMAIN od}
OIndex(od, k) == CHOOSE i \in DOMAIN od : od[i].stream = k
OGet(od, k) == od[OIndex(od, k)].lines
OSetDefault(od, k) ==
    IF k \in OKeys(od) THEN od ELSE Append(od, [stream |-> k, lines |-> <<>>])
OAppendFront(od, k, line) ==
    [od EXCEPT ![OIndex(od, k)].lines = <<line>> \o @]
OAppend(od, k, line) ==
    [od EXCEPT ![OIndex(od, k)].lines = Append(@, line)]

NoError == <<"", "">>
Raise(kind, arg) == <<kind, arg>>

----------------------------------------------------------------------------
(* Module-level values                                                      *)

\* target_start_timestamp = datetime.now().isoformat(), taken at import.
target_start_timestamp == JStr(ToString(0))
\* file_timestamp, taken at import: one per process.
file_timestamp == "T0"

SdcDateCols ==
    {"_sdc_extracted_at", "_sdc_received_at", "_sdc_batched_at", "_sdc_deleted_at"}
SdcIntCols == {"_sdc_sequence", "_sdc_table_version"}
SdcCols == SdcDateCols \cup SdcIntCols

----------------------------------------------------------------------------
(* The inputs explored: configurations and input lines                      *)

Streams == {"a", "b"}

LocalCfg == [folder |-> "out"]
S3Cfg == [bucket |-> "bkt", prefix |-> "pre"]
\* Without "destination" and "add_record_metadata": the defaults apply.
DefaultCfg == [local |-> LocalCfg, s3 |-> S3Cfg]
\* example_config
ExampleCfg ==
    [destination |-> "local", add_record_metadata |-> FALSE,
     local |-> LocalCfg, s3 |-> S3Cfg]
S3MetaCfg ==
    [destination |-> "s3", add_record_metadata |-> TRUE,
     local |-> LocalCfg, s3 |-> S3Cfg]
FtpCfg ==
    [destination |-> "ftp", add_record_metadata |-> FALSE,
     local |-> LocalCfg, s3 |-> S3Cfg]
FtpMetaCfg == [destination |-> "ftp", local |-> LocalCfg, s3 |-> S3Cfg]
Configs == {DefaultCfg, ExampleCfg, S3MetaCfg, FtpCfg, FtpMetaCfg}

\* JSON Schema documents (Draft 4): "type" of a property is the set of the
\* type names it allows.
IntSchema == [type |-> "object", properties |-> [id |-> [type |-> {"integer"}]]]
StrSchema ==
    [type |-> "object", properties |-> [id |-> [type |-> {"string"}]],
     required |-> {"id"}]
NoPropsSchema == [type |-> "object"]

SchemaMsg(s, sch) ==
    [type |-> "SCHEMA", stream |-> s, schema |-> sch, key_properties |-> <<"id">>]
RecordMsg(s, rec) == [type |-> "RECORD", stream |-> s, record |-> rec]
StateMsg(v) == [type |-> "STATE", value |-> v]

SchemaMsgs ==
    {SchemaMsg("a", IntSchema), SchemaMsg("a", StrSchema),
     SchemaMsg("b", IntSchema), SchemaMsg("b", NoPropsSchema),
     \* no key_properties
     [type |-> "SCHEMA", stream |-> "a", schema |-> IntSchema],
     \* no stream
     [type |-> "SCHEMA", schema |-> IntSchema, key_properties |-> <<"id">>]}

RecordMsgs ==
    {RecordMsg("a", [id |-> JInt(1)]), RecordMsg("a", [id |-> JStr("x")]),
     RecordMsg("a", EmptyDict),
     RecordMsg("b", [id |-> JInt(1)]), RecordMsg("b", [id |-> JStr("x")]),
     \* time_extracted that is no string, version that is no integer
     [type |-> "RECORD", stream |-> "a", record |-> [id |-> JInt(1)],
      time_extracted |-> JInt(5), version |-> JStr("v")],
     [type |-> "RECORD", stream |-> "a", record |-> [id |-> JInt(1)],
      time_extracted |-> JStr("t"), version |-> JInt(2)],
     \* records that already carry a metadata column
     RecordMsg("a", Put([id |-> JInt(1)], "_sdc_sequence", JStr("q"))),
     RecordMsg("a", Put([id |-> JInt(1)], "_sdc_deleted_at", JStr("d"))),
     \* no record, no stream
     [type |-> "RECORD", stream |-> "a"],
     [type |-> "RECORD", record |-> [id |-> JInt(1)]]}

StateMsgs == {StateMsg(JInt(1)), StateMsg(JInt(2)), StateMsg(Null)}

OtherMsgs ==
    {[type |-> "ACTIVATE_VERSION", stream |-> "a"],
     [type |-> "ACTIVATE_VERSION"],
     \* no type
     [stream |-> "a"]}

Messages == SchemaMsgs \cup RecordMsgs \cup StateMsgs \cup OtherMsgs
\* What stdin can hold: a serialized message, or a line that is not JSON.
Lines == {json_dumps(m) : m \in Messages} \cup {[garbage |-> "{"]}

----------------------------------------------------------------------------
(* Schema validation and metadata enrichment                                *)

\* Draft4Validator(schema).validate(record) raises nothing: every required
\* property is there, and every declared property that is there has one of
\* its types.  (No format checker is installed, so "format" checks nothing.)
Conforms(schema, record) ==
    /\ "required" \in DOMAIN schema => schema.required \subseteq DOMAIN record
    /\ "properties" \in DOMAIN schema =>
          \A p \in (DOMAIN schema.properties) \cap (DOMAIN record) :
              TypeOf(record[p]) \in schema.properties[p].type

\* The property definitions the SCHEMA branch stores into
\* schema["properties"].
SdcProperties ==
    [col \in SdcCols |->
        IF col \in SdcDateCols
        THEN [type |-> {"null", "string"}, format |-> "date-time"]
        ELSE [type |-> {"null", "integer"}]]
AugmentSchema(schema) ==
    [schema EXCEPT !.properties = Update(@, SdcProperties)]

\* record.update({...}) of the RECORD branch; now is the clock reading.
EnrichRecordReplaced(message, record, now) ==
    [col \in SdcCols |->
        CASE col = "_sdc_extracted_at" ->
                Get(message, "time_extracted", target_start_timestamp)
          [] col = "_sdc_received_at" -> JStr(ToString(now))
          [] col = "_sdc_batched_at" -> JStr(ToString(now))
          [] col = "_sdc_deleted_at" -> Get(record, "_sdc_deleted_at", Null)
          [] col = "_sdc_sequence" -> JInt(now)
          [] col = "_sdc_table_version" -> Get(message, "version", Null)]
EnrichRecord(message, record, now) ==
    Update(record,
        [col \in SdcCols |->
            CASE col = "_sdc_extracted_at" ->
                    Get(message, "time_extracted", target_start_timestamp)
              [] col = "_sdc_received_at" -> JStr(ToString(now))
              [] col = "_sdc_batched_at" -> JStr(ToString(now))
              [] col = "_sdc_deleted_at" -> Get(record, "_sdc_deleted_at", Null)
              [] col = "_sdc_sequence" -> JInt(now)
              [] col = "_sdc_table_version" -> Get(message, "version", Null)])

----------------------------------------------------------------------------
(* persist_lines, one input line at a time.  L is the record of what the    *)
(* loop body reads and writes: the locals state, schemas, validators and    *)
(* key_properties, the module-level stream_lines, stream_files, the files   *)
(* written so far (files), what was written to stdout, the exception       *)
(* raised (err) and the log of the records handed to a validator           *)
(* (validated).                                                             *)

AddRecordMetadata(cfg) == Get(cfg, "add_record_metadata", TRUE)

Abort(L, kind, arg) == [L EXCEPT !.err = Raise(kind, arg)]

\* "stream not in schemas" is what raises the missing-schema exception.
SchemaKnownAny(schemas_, stream) == schemas_ # EmptyDict
SchemaKnown(schemas_, stream) == stream \in DOMAIN schemas_

\* validators[stream] = Draft4Validator(message["schema"])
SetValidatorFirstWins(validators_, stream, schema) ==
    IF stream \in DOMAIN validators_ THEN validators_
    ELSE Put(validators_, stream, schema)
SetValidator(validators_, stream, schema) == Put(validators_, stream, schema)

\* validate(record) is called before record.update(...): it sees the
\* record as parsed (raw), not the record with the metadata (enriched).
RecordAtValidationEnriched(raw, enriched) == enriched
RecordAtValidation(raw, enriched) == raw

\* get_file_path: the target of a stream, or the exception for a
\* destination that is neither "local" nor "s3".
get_file_path(stream, destination, dcfg) ==
    IF destination = "local"
    THEN [err |-> NoError,
          path |-> <<"file", dcfg.folder, stream, file_timestamp>>]
    ELSE IF destination = "s3"
    THEN [err |-> NoError,
          path |-> <<"s3", dcfg.bucket, dcfg.prefix, stream, file_timestamp>>]
    ELSE [err |-> Raise("UnsupportedDestination", destination), path |-> <<>>]

\* write_lines_local: resolve the target once per stream, then open it for
\* writing (truncating) and write every line.  A cached target that is an
\* s3 URL (a str) has no .parent: the mkdir raises AttributeError.
write_lines_local_uncached(destination, dcfg, stream, lines, L) ==
    LET r == get_file_path(stream, destination, dcfg)
    IN  IF r.err # NoError THEN [L EXCEPT !.err = r.err]
        ELSE [L EXCEPT !.stream_files = Put(@, stream, r.path),
                       !.files = Put(@, r.path, lines)]
write_lines_local(destination, dcfg, stream, lines, L) ==
    LET r == get_file_path(stream, destination, dcfg)
        cached == stream \in DOMAIN L.stream_files
    IN  IF ~cached /\ r.err # NoError THEN [L EXCEPT !.err = r.err]
        ELSE LET path == IF cached THEN L.stream_files[stream] ELSE r.path
             IN  IF path[1] # "file"
                 THEN Abort(L, "AttributeError", "parent")
                 ELSE [L EXCEPT !.stream_files = Put(@, stream, path),
                                !.files = Put(@, path, lines)]

write_lines_s3(destination, dcfg, stream, lines, L) ==
    LET r == get_file_path(stream, destination, dcfg)
        cached == stream \in DOMAIN L.stream_files
    IN  IF ~cached /\ r.err # NoError THEN [L EXCEPT !.err = r.err]
        ELSE LET path == IF cached THEN L.stream_files[stream] ELSE r.path
             IN  [L EXCEPT !.stream_files = Put(@, stream, path),
                           !.files = Put(@, path, lines)]

\* write_lines: any destination other than "local" and "s3" falls through
\* both branches and returns None, writing nothing and raising nothing.
write_lines(cfg, stream, lines, L) ==
    LET destination == Get(cfg, "destination", "local")
    IN  IF destination = "local"
        THEN IF "local" \in DOMAIN cfg
             THEN write_lines_local(destination, cfg.local, stream, lines, L)
             ELSE Abort(L, "KeyError", "local")
        ELSE IF destination = "s3"
        THEN IF "s3" \in DOMAIN cfg
             THEN write_lines_s3(destination, cfg.s3, stream, lines, L)
             ELSE Abort(L, "KeyError", "s3")
        ELSE L

\* "Queue message for write": state = None, then the append to the buffer.
QueueRecordWriteThrough(L, cfg, stream, message) ==
    LET Q == [L EXCEPT !.state = Null,
                       !.stream_lines = OAppend(@, stream, json_dumps(message))]
    IN  write_lines(cfg, stream, OGet(Q.stream_lines, stream), Q)
QueueRecordKeepState(L, cfg, stream, message) ==
    [L EXCEPT !.stream_lines = OAppend(@, stream, json_dumps(message))]
QueueRecord(L, cfg, stream, message) ==
    [L EXCEPT !.state = Null,
              !.stream_lines = OAppend(@, stream, json_dumps(message))]

\* The RECORD branch.
OnRecord(L, cfg, message, now) ==
    LET stream == message.stream
    IN  IF ~SchemaKnown(L.schemas, stream) THEN Abort(L, "MissingSchema", stream)
        ELSE IF "record" \notin DOMAIN message THEN Abort(L, "KeyError", "record")
        \* schema = schemas[stream]; validators[stream]
        ELSE IF stream \notin (DOMAIN L.schemas) \cap (DOMAIN L.validators)
        THEN Abort(L, "KeyError", stream)
        ELSE
          LET raw == message.record
              enriched == IF AddRecordMetadata(cfg)
                          THEN EnrichRecord(message, raw, now) ELSE raw
              checked == RecordAtValidation(raw, enriched)
              V == [L EXCEPT !.validated =
                       Append(@, [stream |-> stream, record |-> checked])]
          IN  IF ~Conforms(L.validators[stream], checked)
              THEN Abort(V, "SchemaValidationError", stream)
              ELSE QueueRecord(V, cfg, stream, [message EXCEPT !.record = enriched])

\* The SCHEMA branch.  schemas[stream], the validator's schema and
\* message["schema"] are one dict, so the columns added to its properties
\* show in all three.
OnSchema(L, cfg, message) ==
    LET stream == message.stream
    IN  IF "schema" \notin DOMAIN message THEN Abort(L, "KeyError", "schema")
        ELSE
          LET meta == AddRecordMetadata(cfg)
              noprops == meta /\ "properties" \notin DOMAIN message.schema
              schema == IF meta /\ ~noprops
                        THEN AugmentSchema(message.schema) ELSE message.schema
              R == [L EXCEPT !.schemas = Put(@, stream, schema),
                             !.validators = SetValidator(@, stream, schema)]
          IN  IF "key_properties" \notin DOMAIN message
              THEN Abort(R, "MissingField", "key_properties")
              ELSE
                LET K == [R EXCEPT !.key_properties =
                             Put(@, stream, message.key_properties)]
                IN  IF noprops THEN Abort(K, "KeyError", "properties")
                    ELSE [K EXCEPT !.stream_lines =
                             OAppend(@, stream,
                                 json_dumps([message EXCEPT !.schema = schema]))]

\* The STATE branch: the value is kept, nothing is written anywhere.
OnStateEmitting(L, message) ==
    IF "value" \notin DOMAIN message THEN Abort(L, "KeyError", "value")
    ELSE [L EXCEPT !.state = message.value,
                   !.stdout = Append(@, json_dumps(message.value))]
OnState(L, message) ==
    IF "value" \notin DOMAIN message THEN Abort(L, "KeyError", "value")
    ELSE [L EXCEPT !.state = message.value]

\* The else branch: any other type.
OnOtherIgnored(L, t) == L
OnOther(L, t) == Abort(L, "UnknownMessageType", t)

\* "if t != 'STATE'": the messages that must name a stream.
StreamRequiredAlways(t) == TRUE
StreamRequired(t) == t # "STATE"

\* The body of "for line in lines".
persist_line(L, cfg, line, now) ==
    IF ~IsJson(line) THEN Abort(L, "MalformedMessage", "")
    ELSE
      LET message == json_loads(line)
      IN  IF "type" \notin DOMAIN message THEN Abort(L, "MissingField", "type")
          ELSE
            LET t == message.type
            IN  IF StreamRequired(t) /\ "stream" \notin DOMAIN message
                THEN Abort(L, "MissingField", "stream")
                ELSE
                  LET B == IF StreamRequired(t)
                           THEN [L EXCEPT !.stream_lines =
                                    OSetDefault(@, message.stream)]
                           ELSE L
                  IN  CASE t = "RECORD" -> OnRecord(B, cfg, message, now)
                        [] t = "SCHEMA" -> OnSchema(B, cfg, message)
                        [] t = "STATE" -> OnState(B, message)
                        [] OTHER -> OnOther(B, t)

\* The condition of the flush loop, "len[messages] > 1": subscripting the
\* builtin len raises TypeError before anything is compared.
LenGuardCall(messages) == IF Len(messages) > 1 THEN "true" ELSE "false"
LenGuard(messages) == "TypeError"

\* "for stream, messages in stream_lines.items()", from entry i on.
RECURSIVE FlushFrom(_, _, _)
FlushFrom(L, cfg, i) ==
    IF i > Len(L.stream_lines) THEN L
    ELSE
      LET item == L.stream_lines[i]
          guard == LenGuard(item.lines)
      IN  IF guard = "TypeError" THEN Abort(L, "TypeError", "len")
          ELSE IF guard = "true"
          THEN LET W == write_lines(cfg, item.stream, item.lines, L)
               IN  IF W.err # NoError THEN W ELSE FlushFrom(W, cfg, i + 1)
          ELSE FlushFrom(L, cfg, i + 1)

\* emit_state: one line on stdout, unless the state is None.
emit_state(state_, out) ==
    IF state_ # Null THEN Append(out, json_dumps(state_)) ELSE out

----------------------------------------------------------------------------
(* One run of main(): read stdin line by line, flush, emit the state.       *)

VARIABLES
    config,         \* the configuration of the run
    pc,             \* "read", "emit", "done", or "error" once an exception left main
    input,          \* the lines read so far, in order
    clock,          \* the wall clock
    state,          \* persist_lines: state
    schemas,        \* persist_lines: schemas
    validators,     \* persist_lines: validators (the schema each one checks)
    key_properties, \* persist_lines: key_properties
    stream_lines,   \* module level: stream -> buffered lines, insertion-ordered
    stream_files,   \* module level: stream -> resolved target
    files,          \* target -> the lines written to it
    stdout,         \* the lines written to stdout
    err,            \* the exception that ended the run, NoError if none
    validated       \* the records handed to validate(), in order

vars ==
    <<config, pc, input, clock, state, schemas, validators, key_properties,
      stream_lines, stream_files, files, stdout, err, validated>>

Cur ==
    [state |-> state, schemas |-> schemas, validators |-> validators,
     key_properties |-> key_properties, stream_lines |-> stream_lines,
     stream_files |-> stream_files, files |-> files, stdout |-> stdout,
     err |-> err, validated |-> validated]

Becomes(L) ==
    /\ state' = L.state
    /\ schemas' = L.schemas
    /\ validators' = L.validators
    /\ key_properties' = L.key_properties
    /\ stream_lines' = L.stream_lines
    /\ stream_files' = L.stream_files
    /\ files' = L.files
    /\ stdout' = L.stdout
    /\ err' = L.err
    /\ validated' = L.validated

Init ==
    /\ config \in Configs
    /\ pc = "read"
    /\ input = <<>>
    /\ clock = 0
    /\ state = Null
    /\ schemas = EmptyDict
    /\ validators = EmptyDict
    /\ key_properties = EmptyDict
    /\ stream_lines = <<>>
    /\ stream_files = EmptyDict
    /\ files = EmptyDict
    /\ stdout = <<>>
    /\ err = NoError
    /\ validated = <<>>

IsRecordLine(line) ==
    IsJson(line) /\ Get(json_loads(line), "type", "") = "RECORD"

\* The clock is read only when a record is enriched; between two readings
\* it may or may not have advanced.
Ticks(cfg, line) ==
    IF AddRecordMetadata(cfg) /\ IsRecordLine(line) THEN {0, 1} ELSE {0}

\* One iteration of "for line in lines".
ReadLine ==
    /\ pc = "read"
    /\ Len(input) < MaxLines
    /\ \E line \in Lines, tick \in {0, 1} :
          /\ tick \in Ticks(config, line)
          /\ input' = Append(input, line)
          /\ clock' = clock + tick
          /\ LET L == persist_line(Cur, config, line, clock + tick)
             IN  /\ Becomes(L)
                 /\ pc' = IF L.err # NoError THEN "error" ELSE "read"
    /\ UNCHANGED config

\* stdin is exhausted: the flush loop, then "return state".
Flush ==
    /\ pc = "read"
    /\ LET L == FlushFrom(Cur, config, 1)
       IN  /\ Becomes(L)
           /\ pc' = IF L.err # NoError THEN "error" ELSE "emit"
    /\ UNCHANGED <<config, input, clock>>

\* main: emit_state(state) after persist_lines returned.
EmitState ==
    /\ pc = "emit"
    /\ stdout' = emit_state(state, stdout)
    /\ pc' = "done"
    /\ UNCHANGED <<config, input, clock, state, schemas, validators,
                   key_properties, stream_lines, stream_files, files, err,
                   validated>>

Next == ReadLine \/ Flush \/ EmitState

Spec == Init /\ [][Next]_vars

----------------------------------------------------------------------------
(* What the claims speak of, read off the input and the buffers             *)

IsMsgOfType(line, t) ==
    IsJson(line) /\ Get(json_loads(line), "type", "") = t
IsMsgFor(line, t, s) ==
    IsMsgOfType(line, t) /\ Get(json_loads(line), "stream", "") = s

\* The buffer of stream s; empty when the stream has none.
Buffer(od, s) == IF s \in OKeys(od) THEN OGet(od, s) ELSE <<>>
RecordLines(od, s) ==
    SelectSeq(Buffer(od, s), LAMBDA l : IsMsgOfType(l, "RECORD"))
SchemaLines(od, s) ==
    SelectSeq(Buffer(od, s), LAMBDA l : IsMsgOfType(l, "SCHEMA"))

\* The last line read.
LastLine == input[Len(input)]

\* The schema of the last SCHEMA message for s among the first n lines, as
\* the message carries it and as it is registered (with the metadata
\* columns when enrichment is on).
HasSchemaBefore(s, n) == \E j \in 1..n : IsMsgFor(input[j], "SCHEMA", s)
LastSchemaIndex(s, n) ==
    CHOOSE j \in 1..n :
        /\ IsMsgFor(input[j], "SCHEMA", s)
        /\ \A k \in (j + 1)..n : ~IsMsgFor(input[k], "SCHEMA", s)
CarriedSchema(s, n) == json_loads(input[LastSchemaIndex(s, n)]).schema
RegisteredSchema(s, n) ==
    IF AddRecordMetadata(config) /\ "properties" \in DOMAIN CarriedSchema(s, n)
    THEN AugmentSchema(CarriedSchema(s, n)) ELSE CarriedSchema(s, n)

\* Line i of the input is a message the protocol allows where it stands: a
\* complete SCHEMA, a STATE, or a RECORD of a stream whose schema precedes
\* it and to which it conforms.
LineWellFormed(i) ==
    LET line == input[i]
        m == json_loads(line)
    IN  \/ /\ IsMsgOfType(line, "SCHEMA")
           /\ {"stream", "schema", "key_properties"} \subseteq DOMAIN m
           /\ "properties" \in DOMAIN m.schema
        \/ /\ IsMsgOfType(line, "STATE")
           /\ "value" \in DOMAIN m
        \/ /\ IsMsgOfType(line, "RECORD")
           /\ {"stream", "record"} \subseteq DOMAIN m
           /\ HasSchemaBefore(m.stream, i - 1)
           /\ Conforms(RegisteredSchema(m.stream, i - 1), m.record)
           /\ Conforms(CarriedSchema(m.stream, i - 1), m.record)
WellFormedInput == \A i \in 1..Len(input) : LineWellFormed(i)

Destination == Get(config, "destination", "local")
SupportedDestination == Destination \in {"local", "s3"}

\* The run is over: main returned or an exception left it.
Finished == pc \in {"done", "error"}
\* The exceptions the flush loop can raise.
RaisedInFlush ==
    /\ pc = "error"
    /\ \/ err[1] \in {"TypeError", "UnsupportedDestination"}
       \/ err \in {Raise("KeyError", "local"), Raise("KeyError", "s3")}
\* The read loop ended without an exception, so the flush loop was entered.
FlushEntered == pc \in {"emit", "done"} \/ RaisedInFlush

\* The stream a target belongs to.
StreamOfPath(path) == path[Len(path) - 1]
FilesOf(s) == {p \in DOMAIN files : StreamOfPath(p) = s}

----------------------------------------------------------------------------
(* Claims                                                                   *)

\* The SCHEMA and RECORD lines of stream s, in input order.
InputLinesOf(s) ==
    SelectSeq(input,
        LAMBDA l : IsMsgFor(l, "SCHEMA", s) \/ IsMsgFor(l, "RECORD", s))
\* content is those lines: as many, of the same types in the same order,
\* and the very same lines when nothing is added to them.
HoldsInputLinesOf(content, s) ==
    /\ Len(content) = Len(InputLinesOf(s))
    /\ \A k \in 1..Len(content) :
          /\ IsJson(content[k])
          /\ json_loads(content[k]).type = json_loads(InputLinesOf(s)[k]).type
          /\ ~AddRecordMetadata(config) => content[k] = InputLinesOf(s)[k]
HasRecord(s) == \E i \in 1..Len(input) : IsMsgFor(input[i], "RECORD", s)

\* C1: when every Record's stream has a preceding Schema and every record
\* conforms to it, the run ends without error and has written exactly one
\* artifact for each stream that received a record, holding the stream's
\* schema line and its record lines in input order (and none for a stream
\* without records).
C1_OneArtifactPerStream ==
    (Finished /\ WellFormedInput /\ SupportedDestination) =>
        /\ err = NoError
        /\ \A s \in Streams :
              IF HasRecord(s)
              THEN \E p \in FilesOf(s) :
                      /\ FilesOf(s) = {p}
                      /\ HoldsInputLinesOf(files[p], s)
              ELSE FilesOf(s) = {}

StateIndexes == {i \in 1..Len(input) : IsMsgOfType(input[i], "STATE")}
RecordIndexes == {i \in 1..Len(input) : IsMsgOfType(input[i], "RECORD")}
LastStateIndex == CHOOSE i \in StateIndexes : \A j \in StateIndexes : j <= i
\* What the claim has on stdout at the end of the run.
ExpectedReport ==
    IF /\ StateIndexes # {}
       /\ \A r \in RecordIndexes : r < LastStateIndex
       /\ json_loads(input[LastStateIndex]).value # Null
    THEN <<json_dumps(json_loads(input[LastStateIndex]).value)>>
    ELSE <<>>

\* C2: at the end of a run over a well-formed input, stdout holds the value
\* of the last State message when no Record follows it, and nothing
\* otherwise.
C2_ReportsLastState ==
    (Finished /\ WellFormedInput /\ SupportedDestination) =>
        stdout = ExpectedReport

\* C3: a run that ended in an exception has written no file.
C3_NoWriteOnAbort == pc = "error" => files = EmptyDict
\* A run aborted by a validation failure after records had been buffered.
C3_Witness ==
    /\ pc = "error"
    /\ err[1] = "SchemaValidationError"
    /\ \E s \in Streams : RecordLines(stream_lines, s) # <<>>

\* C4: reading a Record of stream s when no Schema of s came before it
\* raises the missing-schema exception for s, whatever the other streams
\* have, and leaves every buffer as it was.
C4_MissingSchema ==
    [][\A s \in Streams :
          (/\ input' # input
           /\ IsMsgFor(input'[Len(input')], "RECORD", s)
           /\ ~HasSchemaBefore(s, Len(input)))
          => /\ pc' = "error"
             /\ err' = Raise("MissingSchema", s)
             /\ \A t \in Streams :
                   Buffer(stream_lines', t) = Buffer(stream_lines, t)]_vars
\* The exception for stream a while stream b has a schema and a record.
C4_Witness ==
    /\ err = Raise("MissingSchema", "a")
    /\ RecordLines(stream_lines, "b") # <<>>

\* C5: every file written belongs to a stream with an accepted Record in
\* its buffer; a stream with Schema lines only has no file.
C5_NoArtifactWithoutRecord ==
    \A p \in DOMAIN files : RecordLines(stream_lines, StreamOfPath(p)) # <<>>
\* The flush loop was entered with a stream registered twice and no record.
C5_Witness ==
    /\ FlushEntered
    /\ \E s \in Streams :
          /\ Len(SchemaLines(stream_lines, s)) >= 2
          /\ RecordLines(stream_lines, s) = <<>>

\* C6: a Record of stream s whose Schema came before it is buffered only
\* if it conforms to the schema of the last Schema message of s read before
\* it (as carried, and as registered with the metadata columns); one that
\* does not conform raises the validation exception for s and no buffer
\* changes.
C6_ValidatedAgainstLatestSchema ==
    [][\A s \in Streams :
          (/\ input' # input
           /\ IsMsgFor(input'[Len(input')], "RECORD", s)
           /\ "record" \in DOMAIN json_loads(input'[Len(input')])
           /\ HasSchemaBefore(s, Len(input)))
          => LET record == json_loads(input'[Len(input')]).record
                 n == Len(input)
             IN  /\ Buffer(stream_lines', s) # Buffer(stream_lines, s)
                       => /\ Conforms(RegisteredSchema(s, n), record)
                          /\ Conforms(CarriedSchema(s, n), record)
                 /\ ~Conforms(RegisteredSchema(s, n), record)
                       => /\ pc' = "error"
                          /\ err' = Raise("SchemaValidationError", s)
                          /\ \A t \in Streams :
                                Buffer(stream_lines', t) = Buffer(stream_lines, t)]_vars
\* A record buffered after its stream's schema was replaced by another one.
C6_Witness ==
    \E s \in Streams :
        LET b == Buffer(stream_lines, s)
        IN  /\ Len(b) >= 3
            /\ IsMsgOfType(b[1], "SCHEMA")
            /\ IsMsgOfType(b[2], "SCHEMA")
            /\ json_loads(b[1]).schema # json_loads(b[2]).schema
            /\ IsMsgOfType(b[3], "RECORD")

\* C7: when the flush loop is entered with a stream to write (a buffer of
\* more than one line) and the destination is neither "local" nor "s3",
\* the run ends in the unsupported-destination exception naming the
\* destination, and no file is written.
C7_UnsupportedDestination ==
    (/\ FlushEntered
     /\ ~SupportedDestination
     /\ \E s \in Streams : Len(Buffer(stream_lines, s)) > 1)
    => /\ err = Raise("UnsupportedDestination", Destination)
       /\ files = EmptyDict

\* C8: stdout holds at most one line, holds one only when the run is done
\* and never when it ended in an exception, and is written only by the step
\* that follows the flush loop, which writes no file.
C8_EmitOnceAfterFlush ==
    /\ [](/\ Len(stdout) <= 1
          /\ stdout # <<>> => pc = "done" /\ err = NoError
          /\ pc = "error" => stdout = <<>>)
    /\ [][stdout' # stdout =>
             /\ pc = "emit"
             /\ pc' = "done"
             /\ stdout' = <<json_dumps(state)>>
             /\ files' = files]_vars
\* A run that completed and reported a checkpoint.
C8_Witness == pc = "done" /\ Len(stdout) = 1

KnownTypes == {"SCHEMA", "RECORD", "STATE"}
LastHasUnknownType ==
    /\ input # <<>>
    /\ IsJson(LastLine)
    /\ "type" \in DOMAIN json_loads(LastLine)
    /\ json_loads(LastLine).type \notin KnownTypes

\* C9 as stated: a message whose type is not SCHEMA, RECORD or STATE ends
\* the run in the unknown-type exception carrying the type, whatever its
\* other fields.
C9_UnknownTypeAlways ==
    LastHasUnknownType =>
        /\ pc = "error"
        /\ err = Raise("UnknownMessageType", json_loads(LastLine).type)
\* C9 as amended: it does so when the message has a stream field; without
\* one the run ends in the missing-field exception for "stream".
C9_UnknownTypeWithStream ==
    LastHasUnknownType =>
        /\ pc = "error"
        /\ err = IF "stream" \in DOMAIN json_loads(LastLine)
                 THEN Raise("UnknownMessageType", json_loads(LastLine).type)
                 ELSE Raise("MissingField", "stream")
C9_Witness ==
    /\ LastHasUnknownType
    /\ err = Raise("UnknownMessageType", "ACTIVATE_VERSION")

\* The records of stream s handed to validate(), and the RECORD lines of s
\* read, in order.
ValidatedOf(s) == SelectSeq(validated, LAMBDA v : v.stream = s)
InputRecordsOf(s) == SelectSeq(input, LAMBDA l : IsMsgFor(l, "RECORD", s))

\* C10 as stated: with enrichment on, the record handed to the validator is
\* the enriched record that is serialized into the buffer.
C10_ValidatedIsSerialized ==
    AddRecordMetadata(config) =>
        \A s \in Streams :
            \A k \in 1..Len(RecordLines(stream_lines, s)) :
                ValidatedOf(s)[k].record
                    = json_loads(RecordLines(stream_lines, s)[k]).record
\* C10 as amended: with enrichment on, the record handed to the validator
\* is the record as read, without the metadata; the buffered record is that
\* record with the six _sdc_* fields set afterwards and nothing else
\* changed.
C10_ValidatedBeforeEnriched ==
    AddRecordMetadata(config) =>
        \A s \in Streams :
            /\ Len(ValidatedOf(s)) <= Len(InputRecordsOf(s))
            /\ Len(RecordLines(stream_lines, s)) <= Len(ValidatedOf(s))
            /\ \A k \in 1..Len(ValidatedOf(s)) :
                  ValidatedOf(s)[k].record = json_loads(InputRecordsOf(s)[k]).record
            /\ \A k \in 1..Len(RecordLines(stream_lines, s)) :
                  LET raw == json_loads(InputRecordsOf(s)[k]).record
                      out == json_loads(RecordLines(stream_lines, s)[k]).record
                  IN  /\ DOMAIN out = (DOMAIN raw) \cup SdcCols
                      /\ \A f \in (DOMAIN raw) \ SdcCols : out[f] = raw[f]
\* A buffered record whose metadata does not conform to the schema its
\* stream's validator checks.
C10_Witness ==
    /\ AddRecordMetadata(config)
    /\ \E s \in Streams :
          /\ s \in DOMAIN validators
          /\ \E k \in 1..Len(RecordLines(stream_lines, s)) :
                ~Conforms(validators[s],
                          json_loads(RecordLines(stream_lines, s)[k]).record)

\* C11: a message without a type field ends the run in the missing-field
\* exception for "type", a SCHEMA or RECORD message without a stream field
\* in the one for "stream"; a STATE message without a stream field is
\* accepted: the run goes on and the checkpoint is its value.
C11_RequiredFields ==
    /\ [](input # <<>> /\ IsJson(LastLine) =>
            LET m == json_loads(LastLine)
            IN  /\ "type" \notin DOMAIN m =>
                      pc = "error" /\ err = Raise("MissingField", "type")
                /\ ("type" \in DOMAIN m /\ m.type \in {"SCHEMA", "RECORD"}
                        /\ "stream" \notin DOMAIN m) =>
                      pc = "error" /\ err = Raise("MissingField", "stream"))
    /\ [][(/\ input' # input
           /\ IsMsgOfType(input'[Len(input')], "STATE")
           /\ "stream" \notin DOMAIN json_loads(input'[Len(input')])
           /\ "value" \in DOMAIN json_loads(input'[Len(input')]))
          => /\ pc' = "read"
             /\ err' = NoError
             /\ state' = json_loads(input'[Len(input')]).value]_vars
\* A STATE message without a stream was accepted and the run went on to
\* abort on a RECORD without a stream.
C11_Witness ==
    /\ err = Raise("MissingField", "stream")
    /\ IsMsgOfType(LastLine, "RECORD")
    /\ state # Null

\* The lines that went through the loop body without an exception: all
\* the lines read, but the last one when the loop raised on it.
ProcessedCount ==
    IF pc = "error" /\ ~RaisedInFlush THEN Len(input) - 1 ELSE Len(input)
\* The SCHEMA and RECORD lines of stream s among them, in input order.
AcceptedLinesOf(s) ==
    SelectSeq(SubSeq(input, 1, ProcessedCount),
        LAMBDA l : IsMsgFor(l, "SCHEMA", s) \/ IsMsgFor(l, "RECORD", s))
\* out is the serialization of the message of line in: the same fields
\* with the same values, but for the metadata set on a record and the
\* metadata columns added to a schema.
SerializationOf(out, in) ==
    /\ IsJson(out)
    /\ LET o == json_loads(out)
           i == json_loads(in)
       IN  /\ DOMAIN o = DOMAIN i
           /\ \A f \in (DOMAIN i) \ {"record", "schema"} : o[f] = i[f]
           /\ ~AddRecordMetadata(config) => out = in
           /\ (AddRecordMetadata(config) /\ i.type = "SCHEMA")
                 => o.schema = AugmentSchema(i.schema)
           /\ (AddRecordMetadata(config) /\ i.type = "RECORD")
                 => \A f \in (DOMAIN i.record) \ SdcCols :
                       f \in DOMAIN o.record /\ o.record[f] = i.record[f]

\* C12: after any prefix of the input, the buffer of each stream holds, in
\* input order, the serialized Schema messages of the stream and its
\* accepted Record messages, and nothing else: a buffer that is not empty
\* starts with a schema line and no buffer holds a State message.
C12_BufferIsInputOfStream ==
    \A s \in Streams :
        LET b == Buffer(stream_lines, s)
            a == AcceptedLinesOf(s)
        IN  /\ Len(b) = Len(a)
            /\ \A k \in 1..Len(b) :
                  /\ SerializationOf(b[k], a[k])
                  /\ ~IsMsgOfType(b[k], "STATE")
            /\ b # <<>> => IsMsgOfType(b[1], "SCHEMA")
\* A schema and two records of a stream buffered, a State read in between.
C12_Witness ==
    /\ pc = "read"
    /\ Len(Buffer(stream_lines, "a")) >= 3
    /\ \E i \in 1..Len(input) : IsMsgOfType(input[i], "STATE")

\* The step read a Record and buffered it.
RecordAccepted ==
    /\ input' # input
    /\ IsMsgOfType(input'[Len(input')], "RECORD")
    /\ stream_lines' # stream_lines
    /\ pc' = "read"

\* C13: the checkpoint changes only when a State message is read, to the
\* value of the message, and when a Record is accepted, to none; reading a
\* Schema message does not change it, and reading a State message changes
\* no schema, validator, key property or buffer.
C13_CheckpointTransitions ==
    [][/\ state' # state =>
             \/ /\ input' # input
                /\ IsMsgOfType(input'[Len(input')], "STATE")
                /\ state' = json_loads(input'[Len(input')]).value
             \/ RecordAccepted /\ state' = Null
       /\ RecordAccepted => state' = Null
       /\ (input' # input /\ IsMsgOfType(input'[Len(input')], "SCHEMA"))
             => state' = state
       /\ (input' # input /\ IsMsgOfType(input'[Len(input')], "STATE"))
             => /\ state' = Get(json_loads(input'[Len(input')]), "value", state)
                /\ UNCHANGED <<schemas, validators, key_properties,
                               stream_lines, stream_files, files>>]_vars
\* The checkpoint of a State message was cleared by a Record accepted after
\* it.
C13_Witness ==
    /\ pc = "read"
    /\ state = Null
    /\ \E i \in 1..Len(input) :
          /\ IsMsgOfType(input[i], "STATE")
          /\ json_loads(input[i]).value # Null
          /\ \E j \in (i + 1)..Len(input) : IsMsgOfType(input[j], "RECORD")

\* C14: the record line in a buffer is the Record message read, but for
\* the metadata: with enrichment on its record carries the six _sdc_*
\* fields (the extraction time of the message or the start time, one clock
\* reading for received and batched, the record's own deletion time or
\* null, an integer sequence, the message's version or null) and every
\* other field of the record and of the message is as read; with
\* enrichment off the line is the message as read.
C14_RecordLineIsMessagePlusMetadata ==
    \A s \in Streams :
        \A k \in 1..Len(RecordLines(stream_lines, s)) :
            LET in == InputRecordsOf(s)[k]
                out == RecordLines(stream_lines, s)[k]
                i == json_loads(in)
                o == json_loads(out)
            IN  IF ~AddRecordMetadata(config) THEN out = in
                ELSE /\ DOMAIN o = DOMAIN i
                     /\ \A f \in (DOMAIN i) \ {"record"} : o[f] = i[f]
                     /\ DOMAIN o.record = (DOMAIN i.record) \cup SdcCols
                     /\ \A f \in (DOMAIN i.record) \ SdcCols :
                           o.record[f] = i.record[f]
                     /\ o.record["_sdc_extracted_at"] =
                           (IF "time_extracted" \in DOMAIN i
                            THEN i.time_extracted ELSE target_start_timestamp)
                     /\ TypeOf(o.record["_sdc_received_at"]) = "string"
                     /\ o.record["_sdc_batched_at"] = o.record["_sdc_received_at"]
                     /\ o.record["_sdc_deleted_at"] =
                           (IF "_sdc_deleted_at" \in DOMAIN i.record
                            THEN i.record["_sdc_deleted_at"] ELSE Null)
                     /\ TypeOf(o.record["_sdc_sequence"]) = "integer"
                     /\ o.record["_sdc_table_version"] =
                           (IF "version" \in DOMAIN i THEN i.version ELSE Null)
\* A second record of a stream, buffered with its own deletion time kept
\* and a null version.
C14_Witness ==
    /\ AddRecordMetadata(config)
    /\ \E s \in Streams :
          \E k \in 1..Len(RecordLines(stream_lines, s)) :
              LET r == json_loads(RecordLines(stream_lines, s)[k]).record
              IN  /\ r["_sdc_deleted_at"] = JStr("d")
                  /\ r["_sdc_table_version"] = Null
                  /\ k > 1

----------------------------------------------------------------------------
(* write_lines called directly, any number of times in one process, with    *)
(* any configuration, stream and lines.                                     *)

WriteArgs ==
    LET l1 == json_dumps(SchemaMsg("a", IntSchema))
        l2 == json_dumps(RecordMsg("a", [id |-> JInt(1)]))
    IN  {<<l1>>, <<l2>>, <<l1, l1>>, <<l1, l2>>, <<l2, l1>>, <<l2, l2>>}

InitWrite ==
    /\ config \in Configs
    /\ pc = "call"
    /\ input = <<>>
    /\ clock = 0
    /\ state = Null
    /\ schemas = EmptyDict
    /\ validators = EmptyDict
    /\ key_properties = EmptyDict
    /\ stream_lines = <<>>
    /\ stream_files = EmptyDict
    /\ files = EmptyDict
    /\ stdout = <<>>
    /\ err = NoError
    /\ validated = <<>>

\* One call write_lines(cfg, stream, lines); err is what that call raised.
WriteLinesCall ==
    /\ pc = "call"
    /\ \E cfg \in Configs, stream \in Streams, lines \in WriteArgs :
          /\ config' = cfg
          /\ Becomes(write_lines(cfg, stream, lines, [Cur EXCEPT !.err = NoError]))
    /\ UNCHANGED <<pc, input, clock>>

NextWrite == WriteLinesCall

SpecWrite == InitWrite /\ [][NextWrite]_vars

\* C15: once a stream has an entry in stream_files the entry never changes,
\* every file of the stream is at that target, and however often the stream
\* is written it has at most one file.
C15_TargetResolvedOnce ==
    /\ [][\A s \in Streams :
             s \in DOMAIN stream_files =>
                 /\ s \in DOMAIN stream_files'
                 /\ stream_files'[s] = stream_files[s]]_vars
    /\ [](\A s \in Streams :
             /\ Cardinality(FilesOf(s)) <= 1
             /\ FilesOf(s) # {} =>
                   s \in DOMAIN stream_files /\ FilesOf(s) = {stream_files[s]})
\* Stream a, resolved to a local file by an earlier call, was just written
\* by a call whose destination is s3 (only a has been written so far).
C15_Witness ==
    /\ pc = "call"
    /\ Destination = "s3"
    /\ err = NoError
    /\ DOMAIN stream_files = {"a"}
    /\ stream_files["a"][1] = "file"
    /\ Len(files[stream_files["a"]]) = 2

----------------------------------------------------------------------------
(* persist_lines called twice in one process: the second call starts with   *)
(* fresh locals and with the module-level stream_lines and stream_files as  *)
(* the first call left them.  input goes on as the log of the lines read,   *)
(* with a mark where the second call began.                                 *)

CallMark == [call |-> "persist_lines"]
SecondCall == \E i \in 1..Len(input) : input[i] = CallMark
\* The lines the second call has read.
SecondInput ==
    LET i == CHOOSE j \in 1..Len(input) : input[j] = CallMark
    IN  SubSeq(input, i + 1, Len(input))

\* The caller calls persist_lines again, after the first call returned or
\* raised.
Reinvoke ==
    /\ pc \in {"emit", "error"}
    /\ ~SecondCall
    /\ Len(input) < MaxLines
    /\ pc' = "read"
    /\ input' = Append(input, CallMark)
    /\ state' = Null
    /\ schemas' = EmptyDict
    /\ validators' = EmptyDict
    /\ key_properties' = EmptyDict
    /\ err' = NoError
    /\ validated' = <<>>
    /\ UNCHANGED <<config, clock, stream_lines, stream_files, files, stdout>>

NextTwoCalls == ReadLine \/ Flush \/ EmitState \/ Reinvoke

SpecTwoCalls == Init /\ [][NextTwoCalls]_vars

\* C16: when the second call reaches its flush loop, the buffer of each
\* stream holds no more lines than the second call read for that stream;
\* a stream only the first call saw then has nothing buffered, so the
\* second call's flush loop has nothing of it to write again.
C16_CallsIndependent ==
    (SecondCall /\ FlushEntered) =>
        \A s \in Streams :
            Len(Buffer(stream_lines, s))
                <= Len(SelectSeq(SecondInput,
                          LAMBDA l : IsMsgFor(l, "SCHEMA", s)
                                        \/ IsMsgFor(l, "RECORD", s)))

====
